---- MODULE Spec2Model ----
(***************************************************************************)
(* Connect Four: the ConnectFour game object (board, move validation,      *)
(* win detection, position evaluation) and its alpha-beta search           *)
(* (minimax, get_ai_move, suggest_move), modelled from connect_four.py.    *)
(*                                                                         *)
(* The recursion of minimax is unfolded into an explicit stack of frames,  *)
(* so that every node of a search is a state of the model: MinimaxCall is  *)
(* the head of a call (counter, valid moves, terminal checks), MinimaxTry  *)
(* one iteration of its for loop up to the recursive call, MinimaxReturn   *)
(* the rest of that iteration once the recursive call has returned.        *)
(***************************************************************************)
EXTENDS Integers, Sequences, FiniteSets, TLC

VARIABLES ROWS, COLUMNS, board, DIFFICULTY, search_depth, nodes_explored,
          valid_cache, n_moves, pc, stack, retval, call, result,
          script, alternating, db_errors, games, gui

vars == <<ROWS, COLUMNS, board, DIFFICULTY, search_depth, nodes_explored,
          valid_cache, n_moves, pc, stack, retval, call, result,
          script, alternating, db_errors, games, gui>>

----------------------------------------------------------------------------
(* Program constants *)

MIN_BOARD_SIZE == 4
MAX_BOARD_SIZE == 8
VALID_DIFFICULTIES == {1, 2, 3}
PLAYER == 0
AI == 1
\* self.EMPTY = None: a value distinct from both pieces
EMPTY == -1
WINDOW_LENGTH == 4
depth_map == (1 :> 2) @@ (2 :> 4) @@ (3 :> 6)
\* float('inf') and float('-inf'): beyond every evaluate_position value
PosInf == 1000000
NegInf == -PosInf
\* the column None of a terminal node
None == -1
\* the values of games.winner_player: NULL until the statistics of the game
\* are registered, then one of the three the CHECK constraint admits
NoWinner == "NULL"
WINNERS == {"HUMAN", "AI", "EMPATE"}
\* LIMIT 5 of the query of adjust_difficulty
LIMIT == 5
\* MOVE_TIMEOUT of the driver is not a quantity of the model: whether the
\* time since the last move exceeds it is the environment's choice
\* the fixed depth of suggest_move
SUGGEST_DEPTH == 2

(* Bounds of the model *)

\* drops the environment makes of its own choice once its script is played
MaxFree == 1
\* a search of any depth up to MaxDepth may start on any board ...
MaxDepth == 2
\* ... and a deeper one on boards with at most MaxDeepEmpties empty cells
MaxDeepEmpties == 3
\* a search starts only while the moves table holds at most MaxRecorded rows
MaxRecorded == 16
\* ... and the node counter left by the calls before it is at most MaxCarried
MaxCarried == 1
\* the database refuses at most MaxDbErrors moves; once it has, the call it
\* failed in returns and no other drop or search is started
MaxDbErrors == 1
\* the human clicks the suggestion button at most MaxSuggestions times a game
MaxSuggestions == 1
\* the driver gives the AI the turn again at most MaxStuck times after turns
\* in which it placed no piece
MaxStuck == 1

----------------------------------------------------------------------------
(* Helpers *)

Max(S) == CHOOSE x \in S : \A y \in S : y <= x

max2(a, b) == IF a >= b THEN a ELSE b

min2(a, b) == IF a <= b THEN a ELSE b

\* sum of F(i) for i in range(lo, hi)
SumRange(lo, hi, F(_)) ==
    LET S[i \in lo..hi] == IF i >= hi THEN 0 ELSE F(i) + S[i + 1]
    IN  IF lo >= hi THEN 0 ELSE S[lo]

\* concatenation of F(i) for i in range(lo, hi)
FlatRange(lo, hi, F(_)) ==
    LET S[i \in lo..hi] == IF i >= hi THEN <<>> ELSE F(i) \o S[i + 1]
    IN  IF lo >= hi THEN <<>> ELSE S[lo]

Rows == 0..(ROWS - 1)

Cols == 0..(COLUMNS - 1)

\* [[EMPTY] * columns for _ in range(rows)]
EmptyBoard(rows, columns) ==
    [r \in 0..(rows - 1) |-> [c \in 0..(columns - 1) |-> EMPTY]]

Pieces(b) == Cardinality({rc \in Rows \X Cols : b[rc[1]][rc[2]] # EMPTY})

Empties(b) == ROWS * COLUMNS - Pieces(b)

----------------------------------------------------------------------------
(* Board *)

\* a validity test without the lower bound, where a negative index counts
\* from the last column as list indexing does
is_valid_move_wrapping(b, col) ==
    IF col >= COLUMNS THEN FALSE ELSE b[0][col % COLUMNS] = EMPTY

is_valid_move(b, col) ==
    IF ~(0 <= col /\ col < COLUMNS) THEN FALSE ELSE b[0][col] = EMPTY

\* the list comprehension of get_valid_moves
ValidList(b) ==
    LET F[c \in 0..COLUMNS] ==
            IF c = COLUMNS THEN <<>>
            ELSE (IF is_valid_move(b, c) THEN <<c>> ELSE <<>>) \o F[c + 1]
    IN  F[0]

\* @lru_cache on get_valid_moves(self): the only argument is the game object,
\* hashed by identity, so the first list computed for an object is returned
\* by every later call on it. cache is <<>> before the first call and
\* <<list>> after it.
get_valid_moves(cache, b) ==
    IF Len(cache) > 0 THEN cache[1] ELSE ValidList(b)

cache_after(cache, b) ==
    IF Len(cache) > 0 THEN cache ELSE <<ValidList(b)>>

\* a drop that stops at the first free cell from the top
drop_row_top(b, col) == CHOOSE r \in Rows : b[r][col] = EMPTY /\ \A q \in Rows : b[q][col] = EMPTY => r <= q

\* a drop that always writes the bottom row, occupied or not
drop_row_bottom(b, col) == ROWS - 1

\* the row drop_piece writes: the first EMPTY cell scanning range(ROWS-1, -1, -1)
drop_row(b, col) == Max({r \in Rows : b[r][col] = EMPTY})

\* self.board[row][col] = piece
set_cell(b, row, col, piece) == [b EXCEPT ![row][col] = piece]

\* a search that forgets to take its trial move back
undo_forgotten(b, row, col) == b

\* self.board[row][col] = self.EMPTY  (undo of a trial move)
undo(b, row, col) == set_cell(b, row, col, EMPTY)

----------------------------------------------------------------------------
(* Win detection *)

\* a scan whose rising diagonals start one row too low
check_winner_late_diagonal(b, piece) ==
    \/ \E row \in 0..(ROWS - 1), col \in 0..(COLUMNS - 4) :
          \A i \in 0..3 : b[row][col + i] = piece
    \/ \E row \in 0..(ROWS - 4), col \in 0..(COLUMNS - 1) :
          \A i \in 0..3 : b[row + i][col] = piece
    \/ \E row \in 0..(ROWS - 4), col \in 0..(COLUMNS - 4) :
          \A i \in 0..3 : b[row + i][col + i] = piece
    \/ \E row \in 4..(ROWS - 1), col \in 0..(COLUMNS - 4) :
          \A i \in 0..3 : b[row - i][col + i] = piece

check_winner(b, piece) ==
    \/ \E row \in 0..(ROWS - 1), col \in 0..(COLUMNS - 4) :
          \A i \in 0..3 : b[row][col + i] = piece
    \/ \E row \in 0..(ROWS - 4), col \in 0..(COLUMNS - 1) :
          \A i \in 0..3 : b[row + i][col] = piece
    \/ \E row \in 0..(ROWS - 4), col \in 0..(COLUMNS - 4) :
          \A i \in 0..3 : b[row + i][col + i] = piece
    \/ \E row \in 3..(ROWS - 1), col \in 0..(COLUMNS - 4) :
          \A i \in 0..3 : b[row - i][col + i] = piece

\* a scan that leaves out the last window of every row
check_winner_windows_short ==
    FlatRange(0, ROWS, LAMBDA row :
      FlatRange(0, COLUMNS - 4, LAMBDA col :
        <<[i \in 1..4 |-> <<row, col + (i - 1)>>]>>))
    \o FlatRange(0, ROWS - 3, LAMBDA row :
      FlatRange(0, COLUMNS, LAMBDA col :
        <<[i \in 1..4 |-> <<row + (i - 1), col>>]>>))
    \o FlatRange(0, ROWS - 3, LAMBDA row :
      FlatRange(0, COLUMNS - 3, LAMBDA col :
        <<[i \in 1..4 |-> <<row + (i - 1), col + (i - 1)>>]>>))
    \o FlatRange(3, ROWS, LAMBDA row :
      FlatRange(0, COLUMNS - 3, LAMBDA col :
        <<[i \in 1..4 |-> <<row - (i - 1), col + (i - 1)>>]>>))

\* the windows check_winner scans, in the order it scans them, each as the
\* four (row, column) pairs it reads
check_winner_windows ==
    FlatRange(0, ROWS, LAMBDA row :
      FlatRange(0, COLUMNS - 3, LAMBDA col :
        <<[i \in 1..4 |-> <<row, col + (i - 1)>>]>>))
    \o FlatRange(0, ROWS - 3, LAMBDA row :
      FlatRange(0, COLUMNS, LAMBDA col :
        <<[i \in 1..4 |-> <<row + (i - 1), col>>]>>))
    \o FlatRange(0, ROWS - 3, LAMBDA row :
      FlatRange(0, COLUMNS - 3, LAMBDA col :
        <<[i \in 1..4 |-> <<row + (i - 1), col + (i - 1)>>]>>))
    \o FlatRange(3, ROWS, LAMBDA row :
      FlatRange(0, COLUMNS - 3, LAMBDA col :
        <<[i \in 1..4 |-> <<row - (i - 1), col + (i - 1)>>]>>))

----------------------------------------------------------------------------
(* Evaluation *)

\* window.count(x)
Count(window, x) == Cardinality({i \in 1..Len(window) : window[i] = x})

\* a window scorer whose penalty forgets to ask for the empty cell
evaluate_window_blocked(window, piece) ==
    LET opp_piece == IF piece = AI THEN PLAYER ELSE AI
        piece_count == Count(window, piece)
        empty_count == Count(window, EMPTY)
        opp_count == Count(window, opp_piece)
        own == IF piece_count = 4 THEN 100
               ELSE IF piece_count = 3 /\ empty_count = 1 THEN 5
               ELSE IF piece_count = 2 /\ empty_count = 2 THEN 2
               ELSE 0
        opp == IF opp_count = 3 THEN 4 ELSE 0
    IN  own - opp

\* a window scorer that penalises the opposing three only when it scores
\* for the AI
evaluate_window_one_sided(window, piece) ==
    LET opp_piece == IF piece = AI THEN PLAYER ELSE AI
        piece_count == Count(window, piece)
        empty_count == Count(window, EMPTY)
        opp_count == Count(window, opp_piece)
        own == IF piece_count = 4 THEN 100
               ELSE IF piece_count = 3 /\ empty_count = 1 THEN 5
               ELSE IF piece_count = 2 /\ empty_count = 2 THEN 2
               ELSE 0
        opp == IF piece = AI /\ opp_count = 3 /\ empty_count = 1 THEN 4 ELSE 0
    IN  own - opp

evaluate_window(window, piece) ==
    LET opp_piece == IF piece = AI THEN PLAYER ELSE AI
        piece_count == Count(window, piece)
        empty_count == Count(window, EMPTY)
        opp_count == Count(window, opp_piece)
        own == IF piece_count = 4 THEN 100
               ELSE IF piece_count = 3 /\ empty_count = 1 THEN 5
               ELSE IF piece_count = 2 /\ empty_count = 2 THEN 2
               ELSE 0
        opp == IF opp_count = 3 /\ empty_count = 1 THEN 4 ELSE 0
    IN  own - opp

\* an evaluation whose centre bonus counts the pieces of both sides
evaluate_position_any_centre(b) ==
    LET center_count ==
            Cardinality({row \in Rows : b[row][COLUMNS \div 2] # EMPTY})
        horizontal ==
            SumRange(0, ROWS, LAMBDA row :
              SumRange(0, COLUMNS - 3, LAMBDA col :
                evaluate_window([i \in 1..WINDOW_LENGTH |-> b[row][col + i - 1]], AI)))
        vertical ==
            SumRange(0, COLUMNS, LAMBDA col :
              SumRange(0, ROWS - 3, LAMBDA row :
                evaluate_window([i \in 1..WINDOW_LENGTH |-> b[row + i - 1][col]], AI)))
        diagonal_pos ==
            SumRange(0, ROWS - 3, LAMBDA row :
              SumRange(0, COLUMNS - 3, LAMBDA col :
                evaluate_window([i \in 1..WINDOW_LENGTH |-> b[row + i - 1][col + i - 1]], AI)))
        diagonal_neg ==
            SumRange(3, ROWS, LAMBDA row :
              SumRange(0, COLUMNS - 3, LAMBDA col :
                evaluate_window([i \in 1..WINDOW_LENGTH |-> b[row - i + 1][col + i - 1]], AI)))
    IN  center_count * 3 + horizontal + vertical + diagonal_pos + diagonal_neg

evaluate_position(b) ==
    LET center_count ==
            Cardinality({row \in Rows : b[row][COLUMNS \div 2] = AI})
        horizontal ==
            SumRange(0, ROWS, LAMBDA row :
              SumRange(0, COLUMNS - 3, LAMBDA col :
                evaluate_window([i \in 1..WINDOW_LENGTH |-> b[row][col + i - 1]], AI)))
        vertical ==
            SumRange(0, COLUMNS, LAMBDA col :
              SumRange(0, ROWS - 3, LAMBDA row :
                evaluate_window([i \in 1..WINDOW_LENGTH |-> b[row + i - 1][col]], AI)))
        diagonal_pos ==
            SumRange(0, ROWS - 3, LAMBDA row :
              SumRange(0, COLUMNS - 3, LAMBDA col :
                evaluate_window([i \in 1..WINDOW_LENGTH |-> b[row + i - 1][col + i - 1]], AI)))
        diagonal_neg ==
            SumRange(3, ROWS, LAMBDA row :
              SumRange(0, COLUMNS - 3, LAMBDA col :
                evaluate_window([i \in 1..WINDOW_LENGTH |-> b[row - i + 1][col + i - 1]], AI)))
    IN  center_count * 3 + horizontal + vertical + diagonal_pos + diagonal_neg

\* the windows evaluate_position scores, in the order it scores them, each
\* as the four (row, column) pairs it reads: slices of a row, slices of a
\* column (column by column), then the two diagonal directions
evaluate_position_windows ==
    FlatRange(0, ROWS, LAMBDA row :
      FlatRange(0, COLUMNS - 3, LAMBDA col :
        <<[i \in 1..WINDOW_LENGTH |-> <<row, col + (i - 1)>>]>>))
    \o FlatRange(0, COLUMNS, LAMBDA col :
      FlatRange(0, ROWS - 3, LAMBDA row :
        <<[i \in 1..WINDOW_LENGTH |-> <<row + (i - 1), col>>]>>))
    \o FlatRange(0, ROWS - 3, LAMBDA row :
      FlatRange(0, COLUMNS - 3, LAMBDA col :
        <<[i \in 1..WINDOW_LENGTH |-> <<row + (i - 1), col + (i - 1)>>]>>))
    \o FlatRange(3, ROWS, LAMBDA row :
      FlatRange(0, COLUMNS - 3, LAMBDA col :
        <<[i \in 1..WINDOW_LENGTH |-> <<row - (i - 1), col + (i - 1)>>]>>))

----------------------------------------------------------------------------
(* Search: minimax with alpha-beta pruning *)

\* the terminal checks with the human's four looked for first
terminal_human_first(b, valid_moves, depth) ==
    IF check_winner(b, PLAYER) THEN <<NegInf>>
    ELSE IF check_winner(b, AI) THEN <<PosInf>>
    ELSE IF Len(valid_moves) = 0 THEN <<0>>
    ELSE IF depth = 0 THEN <<evaluate_position(b)>>
    ELSE <<>>

\* The terminal checks of minimax, in the order of the code: <<score>> when
\* the node is terminal, <<>> when the search goes on.
terminal(b, valid_moves, depth) ==
    IF check_winner(b, AI) THEN <<PosInf>>
    ELSE IF check_winner(b, PLAYER) THEN <<NegInf>>
    ELSE IF Len(valid_moves) = 0 THEN <<0>>
    ELSE IF depth = 0 THEN <<evaluate_position(b)>>
    ELSE <<>>

\* a loop body without its except clause
caught_nothing(exc) == FALSE

\* "except ValueError: continue" around the body of the for loop: the
\* exceptions the loop of minimax catches
caught_by_minimax(exc) == exc = "ValueError"

\* the frame of a call minimax(depth, alpha, beta, maximizing_player) entered
\* on board b. entry remembers b, and pre the board before the last trial
\* drop of the call (neither is a variable of the code)
Frame(depth, alpha, beta, maximizing_player, b) ==
    [depth |-> depth, alpha |-> alpha, beta |-> beta,
     maximizing |-> maximizing_player, valid_moves |-> <<>>, i |-> 0,
     value |-> 0, column |-> None, row |-> None, col |-> None, entry |-> b,
     pre |-> b]

Top == stack[Len(stack)]

Pop == SubSeq(stack, 1, Len(stack) - 1)

\* what a call returned: (score, column); node remembers the frame that
\* returned (not a variable of the code)
Ret(score, column, f) == [score |-> score, column |-> column, node |-> f]

NoRet == [score |-> 0, column |-> None, node |-> <<>>]

\* an exception that left minimax: nothing is returned
Raised(exc) == [score |-> 0, column |-> None, node |-> <<>>, exc |-> exc]

\* the public call in progress: its name, the arguments of its search and
\* the board it was entered on; invocations counts the calls of minimax made
\* since it began (not a variable of the code)
Call(op, depth, maximizing_player, b) ==
    [op |-> op, depth |-> depth, maximizing |-> maximizing_player, before |-> b,
     invocations |-> 0]

NoCall == Call("none", 0, FALSE, <<>>)

\* the outcome of the last public call c: the exception raised or "ok", and
\* what was returned
Result(c, status, row, column, score, nodes, list) ==
    [op |-> c.op, depth |-> c.depth, maximizing |-> c.maximizing,
     before |-> c.before, invocations |-> c.invocations, status |-> status,
     row |-> row, column |-> column, score |-> score, nodes |-> nodes,
     list |-> list]

NoResult == Result(NoCall, "ok", None, None, 0, 0, <<>>)

\* The driver (ConnectFourGUI): at is the place of run_game executed next
\* ("none": no driver is running), first is game.initial_player, turn and
\* game_over are its fields of these names, winner is the argument of the
\* last show_final_stats call ("" before it). Not variables of the code:
\* suggestions counts the clicks on the suggestion button, stuck the turns
\* of the AI that placed no piece, and counted is what the games table held
\* as the winner of this game when adjust_difficulty read it ("" before)
Gui(initial_player) ==
    [at |-> "first", first |-> initial_player,
     turn |-> IF initial_player = "HUMAN" THEN 0 ELSE 1,
     game_over |-> FALSE, winner |-> "", suggestions |-> 0, stuck |-> 0,
     counted |-> ""]

NoGui == [Gui("HUMAN") EXCEPT !.at = "none"]

\* the except branch of get_ai_move and suggest_move: the first entry of
\* get_valid_moves(), or RuntimeError when that list is empty
Fallback(c, cache, b) ==
    LET valid_moves == get_valid_moves(cache, b)
    IN  IF Len(valid_moves) = 0
        THEN Result(c, "RuntimeError", None, None, 0, 0, <<>>)
        ELSE Result(c, "ok", None, valid_moves[1], 0, 0, <<>>)

\* minimax, from its entry to the terminal return or to the start of the loop
MinimaxCall ==
    /\ pc = "call"
    /\ LET f == Top
           valid_moves == get_valid_moves(valid_cache, board)
           t == terminal(board, valid_moves, f.depth)
       IN  /\ nodes_explored' = nodes_explored + 1
           /\ call' = [call EXCEPT !.invocations = @ + 1]
           /\ valid_cache' = cache_after(valid_cache, board)
           /\ IF Len(t) > 0
              THEN /\ retval' = Ret(t[1], None, f)
                   /\ stack' = Pop
                   /\ pc' = "ret"
              ELSE /\ stack' = [stack EXCEPT ![Len(stack)] =
                           [f EXCEPT !.valid_moves = valid_moves,
                                     !.i = 1,
                                     !.value = IF f.maximizing THEN NegInf ELSE PosInf,
                                     !.column = valid_moves[1]]]
                   /\ pc' = "loop"
                   /\ UNCHANGED retval
    /\ UNCHANGED <<ROWS, COLUMNS, board, DIFFICULTY, search_depth, n_moves,
                   result, script, alternating,
                   db_errors, games, gui>>

\* one iteration of "for col in valid_moves" up to the recursive call:
\* drop_piece raising ValueError (continue), or the trial drop and the call;
\* past the last column, "return value, column". An exception the loop does
\* not catch leaves every frame of the search at once: no frame has another
\* handler.
MinimaxTry ==
    /\ pc = "loop"
    /\ LET f == Top
       IN  IF f.i > Len(f.valid_moves)
           THEN /\ retval' = Ret(f.value, f.column, f)
                /\ stack' = Pop
                /\ pc' = "ret"
                /\ UNCHANGED <<board, n_moves>>
           ELSE LET col == f.valid_moves[f.i]
                    piece == IF f.maximizing THEN AI ELSE PLAYER
                IN  IF ~is_valid_move(board, col)
                    THEN IF caught_by_minimax("ValueError")
                         THEN /\ stack' = [stack EXCEPT ![Len(stack)].i = f.i + 1]
                              /\ UNCHANGED <<board, n_moves, retval, pc>>
                         ELSE /\ retval' = Raised("ValueError")
                              /\ stack' = <<>>
                              /\ pc' = "raise"
                              /\ UNCHANGED <<board, n_moves>>
                    ELSE LET row == drop_row(board, col)
                             b2 == set_cell(board, row, col, piece)
                         IN  /\ board' = b2
                             /\ n_moves' = n_moves + 1
                             /\ stack' = Append(
                                    [stack EXCEPT ![Len(stack)].row = row,
                                                  ![Len(stack)].col = col,
                                                  ![Len(stack)].pre = board],
                                    Frame(f.depth - 1, f.alpha, f.beta, ~f.maximizing, b2))
                             /\ pc' = "call"
                             /\ UNCHANGED retval
    /\ UNCHANGED <<ROWS, COLUMNS, DIFFICULTY, search_depth, nodes_explored,
                   valid_cache, call, result, script, alternating,
                   db_errors, games, gui>>

\* the trial drop of an iteration when register_move fails: the piece is
\* already on the board, DatabaseError is not a ValueError, so it leaves the
\* search and no frame takes its trial move back
MinimaxTryDbError ==
    /\ pc = "loop"
    /\ db_errors < MaxDbErrors
    /\ db_errors' = db_errors + 1
    /\ LET f == Top
       IN  /\ f.i <= Len(f.valid_moves)
           /\ is_valid_move(board, f.valid_moves[f.i])
           /\ ~caught_by_minimax("DatabaseError")
           /\ LET col == f.valid_moves[f.i]
                  piece == IF f.maximizing THEN AI ELSE PLAYER
              IN  board' = set_cell(board, drop_row(board, col), col, piece)
    /\ retval' = Raised("DatabaseError")
    /\ stack' = <<>>
    /\ pc' = "raise"
    /\ UNCHANGED <<ROWS, COLUMNS, DIFFICULTY, search_depth, nodes_explored,
                   valid_cache, n_moves, call, result, script, alternating,
                   games, gui>>

\* the rest of the iteration after the recursive call returned: undo the
\* trial move, keep a strictly better score, narrow the window, break
\* (and return) when alpha >= beta
MinimaxReturn ==
    /\ pc = "ret"
    /\ Len(stack) > 0
    /\ LET f == Top
           new_score == retval.score
           better == IF f.maximizing THEN new_score > f.value
                                     ELSE new_score < f.value
           value == IF better THEN new_score ELSE f.value
           column == IF better THEN f.col ELSE f.column
           alpha == IF f.maximizing THEN max2(f.alpha, value) ELSE f.alpha
           beta == IF f.maximizing THEN f.beta ELSE min2(f.beta, value)
       IN  /\ board' = undo(board, f.row, f.col)
           /\ IF alpha >= beta
              THEN /\ retval' = Ret(value, column, f)
                   /\ stack' = Pop
                   /\ pc' = "ret"
              ELSE /\ stack' = [stack EXCEPT ![Len(stack)] =
                           [f EXCEPT !.value = value, !.column = column,
                                     !.alpha = alpha, !.beta = beta,
                                     !.i = f.i + 1]]
                   /\ pc' = "loop"
                   /\ UNCHANGED retval
    /\ UNCHANGED <<ROWS, COLUMNS, DIFFICULTY, search_depth, nodes_explored,
                   valid_cache, n_moves, call, result, script, alternating,
                   db_errors, games, gui>>

----------------------------------------------------------------------------
(* The environment: the calls made on the game object *)

\* A script is the opening the caller plays before it drops pieces of its
\* own choice: a sequence of columns, PLAYER and AI alternating, PLAYER
\* first. DrawA and DrawB fill the 4x4 board without a four in a row;
\* BothFour gives PLAYER the bottom row and then AI the row above it.
DrawA == <<0, 0, 2, 0, 1, 0, 1, 2, 1, 2, 2, 3, 3, 3, 3, 1>>

DrawB == <<0, 2, 1, 0, 0, 2, 0, 1, 3, 2, 1, 1, 3, 3, 2, 3>>

BothFour == <<0, 0, 1, 1, 2, 2, 3, 3>>

Scripts == {<<>>, DrawA, DrawB, BothFour}

ScriptPiece(k) == IF k % 2 = 1 THEN PLAYER ELSE AI

\* the k-th drop of a behaviour follows the script while it lasts; after it
\* at most MaxFree drops are made, anywhere and by either side; none is made
\* once the database has failed MaxDbErrors times
DropAllowed(col, piece) ==
    LET k == Pieces(board) + 1
    IN  /\ db_errors < MaxDbErrors
        /\ IF k <= Len(script)
           THEN col = script[k] /\ piece = ScriptPiece(k)
           ELSE k <= Len(script) + MaxFree

\* a search of this depth may start on the current board
Budget(depth) ==
    /\ db_errors < MaxDbErrors
    /\ n_moves <= MaxRecorded
    /\ nodes_explored <= MaxCarried
    /\ depth <= MaxDepth \/ Empties(board) <= MaxDeepEmpties

\* alternating.ok: the drops so far are a legal game, the sides alternating
\* and no drop made after a four in a row; alternating.last: the last piece
NoDrop == [ok |-> TRUE, last |-> EMPTY]

\* A line board is built by drop_piece calls, column by column and bottom
\* up, around one run of four cells: the run holds piece p, the cells under
\* it hold a filling pattern. v = 0 leaves the run whole, v in 1..4 gives its
\* v-th cell to the other side, v in 5..8 leaves its (v-4)-th cell, and what
\* would lie above it, undropped.
Other(p) == IF p = AI THEN PLAYER ELSE AI

Filler(r, c) == IF ((r \div 2) + c) % 2 = 0 THEN PLAYER ELSE AI

Directions == {<<0, 1>>, <<1, 0>>, <<1, 1>>, <<-1, 1>>}

\* the four cells from (r, c) in direction d
Run(r, c, d) == [i \in 1..4 |-> <<r + (i - 1) * d[1], c + (i - 1) * d[2]>>]

\* every run of four cells that lies on a board of rows x columns
RunsOf(rows, columns) ==
    {w \in {Run(r, c, d) : r \in 0..(rows - 1), c \in 0..(columns - 1),
                          d \in Directions} :
        \A i \in 1..4 : /\ w[i][1] \in 0..(rows - 1)
                        /\ w[i][2] \in 0..(columns - 1)}

Variants == 0..8

\* the drops that build the line board of run w, piece p, variant v on a
\* board of rows x columns: a sequence of (column, piece)
LineDrops(rows, columns, w, p, v) ==
    LET hole == IF v >= 5 THEN w[v - 4] ELSE <<-1, -1>>
        kept == {i \in 1..4 : ~(w[i][2] = hole[2] /\ w[i][1] <= hole[1])}
        piece_at(r, c) ==
            IF \E i \in kept : w[i] = <<r, c>>
            THEN (IF v \in 1..4 /\ w[v] = <<r, c>> THEN Other(p) ELSE p)
            ELSE Filler(r, c)
        \* the highest row column c is filled to; rows when it stays empty
        top(c) ==
            LET mine == {w[i][1] : i \in {k \in kept : w[k][2] = c}}
            IN  IF mine # {} THEN CHOOSE r \in mine : \A q \in mine : r <= q
                ELSE IF hole[2] = c THEN hole[1] + 1
                ELSE rows
        column(c) ==
            LET F[r \in (top(c) - 1)..(rows - 1)] ==
                    IF r < top(c) THEN <<>>
                    ELSE <<<<c, piece_at(r, c)>>>> \o F[r - 1]
            IN  F[rows - 1]
        G[c \in 0..columns] == IF c = columns THEN <<>> ELSE column(c) \o G[c + 1]
    IN  G[0]

----------------------------------------------------------------------------
(* Operations of the game object *)

\* is_valid_move(col)
IsValidMove(col) ==
    /\ pc = "idle"
    /\ result' = Result(Call("is_valid_move", 0, FALSE, board), "ok", None,
                        None, 0, 0, <<>>)
                  @@ [args |-> <<col>>, value |-> is_valid_move(board, col)]
    /\ UNCHANGED <<ROWS, COLUMNS, board, DIFFICULTY, search_depth,
                   nodes_explored, valid_cache, n_moves, pc, stack, retval,
                   call, script, alternating, db_errors, games, gui>>

\* get_valid_moves()
GetValidMoves ==
    /\ pc = "idle"
    /\ valid_cache' = cache_after(valid_cache, board)
    /\ result' = Result(Call("get_valid_moves", 0, FALSE, board), "ok",
                        None, None, 0, 0, get_valid_moves(valid_cache, board))
    /\ UNCHANGED <<ROWS, COLUMNS, board, DIFFICULTY, search_depth,
                   nodes_explored, n_moves, pc, stack, retval, call, script,
                   alternating,
                   db_errors, games, gui>>

\* drop_piece(col, piece) on a valid column: the piece goes to the lowest
\* empty row, the move is registered, (row, col) is returned
DropPiece(col, piece) ==
    /\ pc = "idle"
    /\ is_valid_move(board, col)
    /\ DropAllowed(col, piece)
    /\ LET row == drop_row(board, col)
       IN  /\ board' = set_cell(board, row, col, piece)
           /\ result' = Result(Call("drop_piece", 0, FALSE, board), "ok",
                               row, col, 0, 0, <<>>)
    /\ n_moves' = n_moves + 1
    /\ alternating' =
          [ok |-> /\ alternating.ok
                  /\ alternating.last # piece
                  /\ ~check_winner(board, PLAYER)
                  /\ ~check_winner(board, AI),
           last |-> piece]
    /\ UNCHANGED <<ROWS, COLUMNS, DIFFICULTY, search_depth, nodes_explored,
                   valid_cache, pc, stack, retval, call, script,
                   db_errors, games, gui>>

\* drop_piece(col, piece) on a valid column when register_move fails: the
\* piece is on the board, no move is recorded, DatabaseError reaches the
\* caller
DropPieceDbError(col, piece) ==
    /\ pc = "idle"
    /\ db_errors < MaxDbErrors
    /\ db_errors' = db_errors + 1
    /\ is_valid_move(board, col)
    /\ DropAllowed(col, piece)
    /\ board' = set_cell(board, drop_row(board, col), col, piece)
    /\ result' = Result(Call("drop_piece", 0, FALSE, board), "DatabaseError",
                        None, col, 0, 0, <<>>)
    /\ alternating' =
          [ok |-> /\ alternating.ok
                  /\ alternating.last # piece
                  /\ ~check_winner(board, PLAYER)
                  /\ ~check_winner(board, AI),
           last |-> piece]
    /\ UNCHANGED <<ROWS, COLUMNS, DIFFICULTY, search_depth, nodes_explored,
                   valid_cache, n_moves, pc, stack, retval, call, script,
                   games, gui>>

\* a drop_piece that registers the move before it validates the column
DropPieceInvalid_recorded(col, piece) ==
    /\ pc = "idle"
    /\ ~is_valid_move(board, col)
    /\ result' = Result(Call("drop_piece", 0, FALSE, board), "ValueError",
                        None, col, 0, 0, <<>>)
    /\ n_moves' = IF col \in Cols THEN n_moves + 1 ELSE n_moves
    /\ UNCHANGED <<ROWS, COLUMNS, board, DIFFICULTY, search_depth,
                   nodes_explored, valid_cache, pc, stack, retval,
                   call, script, alternating, db_errors,
                   games, gui>>

\* drop_piece(col, piece) on a full or out-of-range column: ValueError
DropPieceInvalid(col, piece) ==
    /\ pc = "idle"
    /\ ~is_valid_move(board, col)
    /\ result' = Result(Call("drop_piece", 0, FALSE, board), "ValueError",
                        None, col, 0, 0, <<>>)
    /\ UNCHANGED <<ROWS, COLUMNS, board, DIFFICULTY, search_depth,
                   nodes_explored, valid_cache, n_moves, pc, stack, retval,
                   call, script, alternating,
                   db_errors, games, gui>>

\* the outcome of a call of a function of the game object that only reads:
\* its arguments and the value it returned
Returned(op, args, value) ==
    Result(Call(op, 0, FALSE, board), "ok", None, None, 0, 0, <<>>)
    @@ [args |-> args, value |-> value]

\* check_winner(piece)
CheckWinner(piece) ==
    /\ pc = "idle"
    /\ result' = Returned("check_winner", <<piece>>, check_winner(board, piece))
    /\ UNCHANGED <<ROWS, COLUMNS, board, DIFFICULTY, search_depth,
                   nodes_explored, valid_cache, n_moves, pc, stack, retval,
                   call, script, alternating, db_errors,
                   games, gui>>

\* evaluate_position()
EvaluatePosition ==
    /\ pc = "idle"
    /\ result' = Returned("evaluate_position", <<>>, evaluate_position(board))
    /\ UNCHANGED <<ROWS, COLUMNS, board, DIFFICULTY, search_depth,
                   nodes_explored, valid_cache, n_moves, pc, stack, retval,
                   call, script, alternating, db_errors,
                   games, gui>>

\* evaluate_window(window, piece); its lru_cache is keyed on the window and
\* the piece, the only things the body reads besides the three constants
EvaluateWindow(window, piece) ==
    /\ pc = "idle"
    /\ result' = Returned("evaluate_window", <<window, piece>>,
                          evaluate_window(window, piece))
    /\ UNCHANGED <<ROWS, COLUMNS, board, DIFFICULTY, search_depth,
                   nodes_explored, valid_cache, n_moves, pc, stack, retval,
                   call, script, alternating, db_errors,
                   games, gui>>

\* a call of minimax(depth, -inf, +inf, maximizing_player) from outside
Minimax(depth, maximizing_player) ==
    /\ pc = "idle"
    /\ Budget(depth)
    /\ call' = Call("minimax", depth, maximizing_player, board)
    /\ stack' = <<Frame(depth, NegInf, PosInf, maximizing_player, board)>>
    /\ pc' = "call"
    /\ result' = NoResult
    /\ UNCHANGED <<ROWS, COLUMNS, board, DIFFICULTY, search_depth,
                   nodes_explored, valid_cache, n_moves, retval, script,
                   alternating,
                   db_errors, games, gui>>

\* minimax returned to its caller, or an exception it did not catch reached
\* the caller
MinimaxDone ==
    /\ pc \in {"ret", "raise"}
    /\ Len(stack) = 0
    /\ call.op = "minimax"
    /\ result' = IF pc = "raise"
                 THEN Result(call, retval.exc, None, None, 0, nodes_explored, <<>>)
                 ELSE Result(call, "ok", None, retval.column, retval.score,
                             nodes_explored, <<>>)
    /\ pc' = "idle"
    /\ retval' = NoRet
    /\ call' = NoCall
    /\ UNCHANGED <<ROWS, COLUMNS, board, DIFFICULTY, search_depth,
                   nodes_explored, valid_cache, n_moves, stack,
                   script, alternating,
                   db_errors, games, gui>>

\* a get_ai_move that goes on counting where the last call stopped
GetAiMove_counting_on ==
    /\ pc = "idle"
    /\ Budget(search_depth)
    /\ call' = Call("get_ai_move", search_depth, TRUE, board)
    /\ stack' = <<Frame(search_depth, NegInf, PosInf, TRUE, board)>>
    /\ pc' = "call"
    /\ result' = NoResult
    /\ UNCHANGED <<ROWS, COLUMNS, board, DIFFICULTY, search_depth,
                   nodes_explored, valid_cache, n_moves, retval, script,
                   alternating, db_errors,
                   games, gui>>

\* get_ai_move(): reset the counter, search at search_depth as the maximizer
GetAiMove ==
    /\ pc = "idle"
    /\ Budget(search_depth)
    /\ nodes_explored' = 0
    /\ call' = Call("get_ai_move", search_depth, TRUE, board)
    /\ stack' = <<Frame(search_depth, NegInf, PosInf, TRUE, board)>>
    /\ pc' = "call"
    /\ result' = NoResult
    /\ UNCHANGED <<ROWS, COLUMNS, board, DIFFICULTY, search_depth,
                   valid_cache, n_moves, retval, script, alternating,
                   db_errors, games, gui>>

\* get_ai_move() after the search: the column found; when it is None,
\* RuntimeError, which the except branch catches like every exception that
\* left the search
GetAiMoveDone ==
    /\ pc \in {"ret", "raise"}
    /\ Len(stack) = 0
    /\ call.op = "get_ai_move"
    /\ LET bad == pc = "raise" \/ retval.column = None
       IN  /\ result' = IF bad
                        THEN Fallback(call, valid_cache, board)
                        ELSE Result(call, "ok", None, retval.column,
                                    retval.score, nodes_explored, <<>>)
           /\ valid_cache' = IF bad THEN cache_after(valid_cache, board)
                             ELSE valid_cache
    /\ pc' = "idle"
    /\ retval' = NoRet
    /\ call' = NoCall
    /\ UNCHANGED <<ROWS, COLUMNS, board, DIFFICULTY, search_depth,
                   nodes_explored, n_moves, stack, script,
                   alternating,
                   db_errors, games, gui>>

\* suggest_move(): reset the counter, search at depth 2 as the minimizer
SuggestMove ==
    /\ pc = "idle"
    /\ Budget(SUGGEST_DEPTH)
    /\ nodes_explored' = 0
    /\ call' = Call("suggest_move", SUGGEST_DEPTH, FALSE, board)
    /\ stack' = <<Frame(SUGGEST_DEPTH, NegInf, PosInf, FALSE, board)>>
    /\ pc' = "call"
    /\ result' = NoResult
    /\ UNCHANGED <<ROWS, COLUMNS, board, DIFFICULTY, search_depth,
                   valid_cache, n_moves, retval, script, alternating,
                   db_errors, games, gui>>

\* suggest_move() after the search: the column found; when it is None or
\* not a valid move, RuntimeError, which the except branch catches like every
\* exception that left the search
SuggestMoveDone ==
    /\ pc \in {"ret", "raise"}
    /\ Len(stack) = 0
    /\ call.op = "suggest_move"
    /\ LET bad == \/ pc = "raise"
                  \/ retval.column = None
                  \/ ~is_valid_move(board, retval.column)
       IN  /\ result' = IF bad
                        THEN Fallback(call, valid_cache, board)
                        ELSE Result(call, "ok", None, retval.column,
                                    retval.score, nodes_explored, <<>>)
           /\ valid_cache' = IF bad THEN cache_after(valid_cache, board)
                             ELSE valid_cache
    /\ pc' = "idle"
    /\ retval' = NoRet
    /\ call' = NoCall
    /\ UNCHANGED <<ROWS, COLUMNS, board, DIFFICULTY, search_depth,
                   nodes_explored, n_moves, stack, script,
                   alternating,
                   db_errors, games, gui>>

----------------------------------------------------------------------------
(* Difficulty and the games table *)

\* SELECT winner_player FROM games ORDER BY timestamp DESC LIMIT 5: table
\* is the column winner_player, the newest game first
recent_games(table) == SubSeq(table, 1, min2(LIMIT, Len(table)))

\* sum(1 for game in recent_games if game['winner_player'] == 'HUMAN')
human_wins(recent) == Cardinality({k \in 1..Len(recent) : recent[k] = "HUMAN"})

\* an adjustment that also raises the top level and lowers the bottom one
adjusted_unclamped(difficulty, wins) ==
    IF wins >= 4 THEN difficulty + 1
    ELSE IF wins <= 1 THEN difficulty - 1
    ELSE difficulty

\* the if / elif of adjust_difficulty
adjusted(difficulty, wins) ==
    IF wins >= 4 /\ difficulty < 3 THEN difficulty + 1
    ELSE IF wins <= 1 /\ difficulty > 1 THEN difficulty - 1
    ELSE difficulty

\* adjust_difficulty(player_won) when the query succeeds; player_won is not
\* read
AdjustDifficulty(player_won) ==
    /\ pc = "idle"
    /\ LET wins == human_wins(recent_games(games))
           level == adjusted(DIFFICULTY, wins)
       IN  /\ DIFFICULTY' = level
           /\ search_depth' = IF level \in DOMAIN depth_map THEN depth_map[level]
                               ELSE None
           /\ result' = Returned("adjust_difficulty", <<player_won>>, wins)
    /\ UNCHANGED <<ROWS, COLUMNS, board, nodes_explored, valid_cache, n_moves,
                   pc, stack, retval, call, script, alternating, db_errors,
                   games, gui>>

\* adjust_difficulty(player_won) when the connection or the query fails: the
\* except branch logs and keeps the difficulty
AdjustDifficultyDbError(player_won) ==
    /\ pc = "idle"
    /\ db_errors < MaxDbErrors
    /\ db_errors' = db_errors + 1
    /\ result' = Returned("adjust_difficulty", <<player_won>>, None)
    /\ UNCHANGED <<ROWS, COLUMNS, board, DIFFICULTY, search_depth,
                   nodes_explored, valid_cache, n_moves, pc, stack, retval,
                   call, script, alternating, games, gui>>

\* the games table after register_game_stats with stats_data['winner'] =
\* winner: the UPDATE of the row of this game, which the CHECK constraint on
\* winner_player refuses for any other value than the three it lists
register_game_stats(table, winner) ==
    IF winner \in WINNERS THEN [table EXCEPT ![1] = winner] ELSE table

\* register_game_stats(stats_data): DatabaseError when the UPDATE is refused
RegisterGameStats(winner) ==
    /\ pc = "idle"
    /\ games' = register_game_stats(games, winner)
    /\ result' = [Returned("register_game_stats", <<winner>>, None)
                    EXCEPT !.status = IF winner \in WINNERS THEN "ok"
                                      ELSE "DatabaseError"]
    /\ UNCHANGED <<ROWS, COLUMNS, board, DIFFICULTY, search_depth,
                   nodes_explored, valid_cache, n_moves, pc, stack, retval,
                   call, script, alternating, db_errors, gui>>

----------------------------------------------------------------------------
(* Specification: a game on the smallest board, driven through the public  *)
(* operations, with a database that accepts every move                     *)

\* the state __init__ leaves: an empty board of rows x columns, the depth of
\* the chosen difficulty, nothing counted, nothing cached, no move recorded,
\* and the row of this game, without a winner, as the newest of the games
\* table; history is the winner_player of the games the table held before
ConstructedOn(rows, columns, difficulty, history) ==
    /\ ROWS = rows
    /\ COLUMNS = columns
    /\ DIFFICULTY = difficulty
    /\ search_depth = depth_map[difficulty]
    /\ nodes_explored = 0
    /\ board = EmptyBoard(rows, columns)
    /\ valid_cache = <<>>
    /\ n_moves = 0
    /\ pc = "idle"
    /\ stack = <<>>
    /\ retval = NoRet
    /\ call = NoCall
    /\ result = NoResult
    /\ alternating = NoDrop
    /\ db_errors = 0
    /\ games = <<NoWinner>> \o history
    /\ gui = NoGui

\* the same on a database that holds no other game
Constructed(rows, columns, difficulty) ==
    ConstructedOn(rows, columns, difficulty, <<>>)

Init ==
    /\ \E difficulty \in VALID_DIFFICULTIES :
          Constructed(MIN_BOARD_SIZE, MIN_BOARD_SIZE, difficulty)
    /\ script \in Scripts

Next ==
    \/ GetValidMoves
    \/ \E col \in Cols, piece \in {PLAYER, AI} : DropPiece(col, piece)
    \/ \E col \in -1..COLUMNS, piece \in {PLAYER, AI} : DropPieceInvalid(col, piece)
    \/ \E depth \in 0..depth_map[3], m \in BOOLEAN : Minimax(depth, m)
    \/ MinimaxDone
    \/ GetAiMove
    \/ GetAiMoveDone
    \/ SuggestMove
    \/ SuggestMoveDone
    \/ MinimaxCall
    \/ MinimaxTry
    \/ MinimaxReturn

Spec == Init /\ [][Next]_vars

\* The same game with difficulty 1, where get_ai_move (depth 2) may start on
\* every board; minimax is still called with every depth from 0 to 6. A call
\* that has begun runs on: each step of the search and the return to the
\* caller is taken when it is the next thing to do.
InitFair ==
    /\ Constructed(MIN_BOARD_SIZE, MIN_BOARD_SIZE, 1)
    /\ script \in Scripts

SpecFair ==
    /\ InitFair /\ [][Next]_vars
    /\ WF_vars(MinimaxCall \/ MinimaxTry \/ MinimaxReturn)
    /\ WF_vars(MinimaxDone \/ GetAiMoveDone \/ SuggestMoveDone)

----------------------------------------------------------------------------
(* Specification: a game on the standard 6x7 board with difficulty 1, from  *)
(* the empty board through the drops that give each side the bottom rows    *)

InitNodes ==
    /\ Constructed(6, 7, 1)
    /\ script = BothFour

SpecNodes == InitNodes /\ [][Next]_vars

----------------------------------------------------------------------------
(* Specification: boards of every admissible size, default difficulty; the *)
(* searches are those of depth 0 and 1, a trial drop and its undo per      *)
(* column                                                                  *)

InitBoard ==
    /\ \E rows \in MIN_BOARD_SIZE..MAX_BOARD_SIZE,
          columns \in MIN_BOARD_SIZE..MAX_BOARD_SIZE :
          Constructed(rows, columns, 2)
    /\ script = BothFour

NextBoard ==
    \/ \E col \in Cols, piece \in {PLAYER, AI} : DropPiece(col, piece)
    \/ \E col \in -1..COLUMNS, piece \in {PLAYER, AI} : DropPieceInvalid(col, piece)
    \/ \E depth \in 0..1, m \in BOOLEAN : Minimax(depth, m)
    \/ MinimaxDone
    \/ MinimaxCall
    \/ MinimaxTry
    \/ MinimaxReturn

SpecBoard == InitBoard /\ [][NextBoard]_vars

----------------------------------------------------------------------------
(* Specification: win detection and evaluation on line boards of every     *)
(* admissible size                                                         *)

\* the board after the calls drop_piece(col, piece) of drops, in order
Played(b, drops) ==
    LET F[k \in 0..Len(drops)] ==
            IF k = 0 THEN b
            ELSE LET before == F[k - 1]
                     col == drops[k][1]
                 IN  set_cell(before, drop_row(before, col), col, drops[k][2])
    IN  F[Len(drops)]

\* the state after construction and the drop_piece calls of drops
AfterDrops(rows, columns, difficulty, drops) ==
    /\ ROWS = rows
    /\ COLUMNS = columns
    /\ DIFFICULTY = difficulty
    /\ search_depth = depth_map[difficulty]
    /\ nodes_explored = 0
    /\ board = Played(EmptyBoard(rows, columns), drops)
    /\ valid_cache = <<>>
    /\ n_moves = Len(drops)
    /\ pc = "idle"
    /\ stack = <<>>
    /\ retval = NoRet
    /\ call = NoCall
    /\ result = NoResult
    /\ alternating = [ok |-> FALSE, last |-> EMPTY]
    /\ db_errors = 0
    /\ games = <<NoWinner>>
    /\ gui = NoGui

InitLines ==
    /\ \E rows \in MIN_BOARD_SIZE..MAX_BOARD_SIZE,
          columns \in MIN_BOARD_SIZE..MAX_BOARD_SIZE :
          \/ AfterDrops(rows, columns, 2, <<>>)
          \/ \E w \in RunsOf(rows, columns), p \in {PLAYER, AI}, v \in Variants :
                AfterDrops(rows, columns, 2, LineDrops(rows, columns, w, p, v))
    /\ script = <<>>

NextLines ==
    \/ \E piece \in {PLAYER, AI} : CheckWinner(piece)
    \/ EvaluatePosition

SpecLines == InitLines /\ [][NextLines]_vars

----------------------------------------------------------------------------
(* Specification: evaluate_window called with every window and either      *)
(* side, between drops on the smallest board                               *)

\* every tuple of 4 cell values
Windows == [1..WINDOW_LENGTH -> {EMPTY, PLAYER, AI}]

InitWindow ==
    /\ \E difficulty \in VALID_DIFFICULTIES :
          Constructed(MIN_BOARD_SIZE, MIN_BOARD_SIZE, difficulty)
    /\ script = <<>>

NextWindow ==
    \/ \E window \in Windows, piece \in {PLAYER, AI} : EvaluateWindow(window, piece)
    \/ \E col \in Cols, piece \in {PLAYER, AI} : DropPiece(col, piece)

SpecWindow == InitWindow /\ [][NextWindow]_vars

----------------------------------------------------------------------------
(* Specification: is_valid_move asked about columns on and off the board,  *)
(* on every admissible size, while one column is filled to the top         *)

InitValid ==
    \E rows \in MIN_BOARD_SIZE..MAX_BOARD_SIZE,
       columns \in MIN_BOARD_SIZE..MAX_BOARD_SIZE,
       filled \in 0..(MAX_BOARD_SIZE - 1) :
       /\ filled < columns
       /\ Constructed(rows, columns, 2)
       /\ script = [k \in 1..rows |-> filled]

NextValid ==
    \/ \E col \in -2..(COLUMNS + 1) : IsValidMove(col)
    \/ \E col \in Cols, piece \in {PLAYER, AI} : DropPiece(col, piece)

SpecValid == InitValid /\ [][NextValid]_vars

----------------------------------------------------------------------------
(* Specification: the construction of a game object, with arguments inside *)
(* and outside the admitted ranges                                         *)

\* a validation that checks the rows only
validate_parameters_rows_only(rows, columns, difficulty, initial_player) ==
    /\ MIN_BOARD_SIZE <= rows /\ rows <= MAX_BOARD_SIZE
    /\ difficulty \in VALID_DIFFICULTIES
    /\ initial_player \in {"HUMAN", "AI"}

\* _validate_parameters: TRUE when no ValueError is raised
validate_parameters(rows, columns, difficulty, initial_player) ==
    /\ MIN_BOARD_SIZE <= rows /\ rows <= MAX_BOARD_SIZE
    /\ MIN_BOARD_SIZE <= columns /\ columns <= MAX_BOARD_SIZE
    /\ difficulty \in VALID_DIFFICULTIES
    /\ initial_player \in {"HUMAN", "AI"}

\* no object yet: pc = "new", no field has a value, and the games table holds
\* the rows of earlier games only
Unconstructed(history) ==
    /\ ROWS = 0
    /\ COLUMNS = 0
    /\ DIFFICULTY = 0
    /\ search_depth = 0
    /\ nodes_explored = 0
    /\ board = <<>>
    /\ valid_cache = <<>>
    /\ n_moves = 0
    /\ pc = "new"
    /\ stack = <<>>
    /\ retval = NoRet
    /\ call = NoCall
    /\ result = NoResult
    /\ alternating = NoDrop
    /\ db_errors = 0
    /\ games = history
    /\ gui = NoGui
    /\ script = <<>>

\* the outcome of a constructor call
Constructing(args, status) ==
    Result(Call("__init__", 0, FALSE, <<>>), status, None, None, 0, 0, <<>>)
    @@ [args |-> args, value |-> None]

\* ConnectFour(rows, columns, difficulty, initial_player): ValueError from
\* _validate_parameters before any field is set, or the fields are set, the
\* tables exist and register_new_game inserts the row of this game
New(rows, columns, difficulty, initial_player) ==
    /\ pc = "new"
    /\ LET args == <<rows, columns, difficulty, initial_player>>
       IN  IF ~validate_parameters(rows, columns, difficulty, initial_player)
           THEN /\ result' = Constructing(args, "ValueError")
                /\ UNCHANGED <<ROWS, COLUMNS, board, DIFFICULTY, search_depth,
                               pc, games>>
           ELSE /\ ROWS' = rows
                /\ COLUMNS' = columns
                /\ DIFFICULTY' = difficulty
                /\ search_depth' = depth_map[difficulty]
                /\ board' = EmptyBoard(rows, columns)
                /\ games' = <<NoWinner>> \o games
                /\ pc' = "idle"
                /\ result' = Constructing(args, "ok")
    /\ UNCHANGED <<nodes_explored, valid_cache, n_moves, stack, retval, call,
                   script, alternating, db_errors, gui>>

\* the same call when initialize_database or register_new_game fails:
\* DatabaseError leaves the constructor, no object and no row of this game
NewDbError(rows, columns, difficulty, initial_player) ==
    /\ pc = "new"
    /\ validate_parameters(rows, columns, difficulty, initial_player)
    /\ db_errors < MaxDbErrors
    /\ db_errors' = db_errors + 1
    /\ result' = Constructing(<<rows, columns, difficulty, initial_player>>,
                              "DatabaseError")
    /\ UNCHANGED <<ROWS, COLUMNS, board, DIFFICULTY, search_depth,
                   nodes_explored, valid_cache, n_moves, pc, stack, retval,
                   call, script, alternating, games, gui>>

\* the winner_player of up to n earlier games, newest first
Histories(n) == UNION {[1..k -> WINNERS \cup {NoWinner}] : k \in 0..n}

\* the sizes, difficulties and first players a caller may pass
Sizes == (MIN_BOARD_SIZE - 1)..(MAX_BOARD_SIZE + 1)

Levels == 0..4

Starters == {"HUMAN", "AI", "IA"}

InitNew == \E history \in Histories(1) : Unconstructed(history)

NextNew ==
    \/ \E rows \in Sizes, columns \in Sizes, difficulty \in Levels,
          initial_player \in Starters :
          New(rows, columns, difficulty, initial_player)
    \/ \E rows \in Sizes, columns \in Sizes, difficulty \in Levels,
          initial_player \in Starters :
          NewDbError(rows, columns, difficulty, initial_player)

SpecNew == InitNew /\ [][NextNew]_vars

----------------------------------------------------------------------------
(* Specification: adjust_difficulty called again and again on a database   *)
(* that holds any recent games and may fail to answer                      *)

InitDifficulty ==
    /\ \E difficulty \in VALID_DIFFICULTIES, history \in Histories(LIMIT) :
          ConstructedOn(MIN_BOARD_SIZE, MIN_BOARD_SIZE, difficulty, history)
    /\ script = <<>>

NextDifficulty ==
    \/ \E player_won \in BOOLEAN : AdjustDifficulty(player_won)
    \/ \E player_won \in BOOLEAN : AdjustDifficultyDbError(player_won)
    \/ \E winner \in WINNERS \cup {"IA", "JUGADOR"} : RegisterGameStats(winner)

SpecDifficulty == InitDifficulty /\ [][NextDifficulty]_vars

----------------------------------------------------------------------------
(* Specification: the game on the smallest board with a database that may  *)
(* refuse a move it is asked to record                                     *)

NextDb ==
    \/ Next
    \/ \E col \in Cols, piece \in {PLAYER, AI} : DropPieceDbError(col, piece)
    \/ MinimaxTryDbError

SpecDb == Init /\ [][NextDb]_vars

----------------------------------------------------------------------------
(* The driver: ConnectFourGUI.run_game and the handlers of its events      *)

\* what the driver leaves alone when it only moves on in run_game
GameKept ==
    UNCHANGED <<ROWS, COLUMNS, board, DIFFICULTY, search_depth,
                nodes_explored, valid_cache, n_moves, pc, stack, retval,
                call, result, script, alternating, db_errors, games>>

\* the call of get_ai_move() or suggest_move() by the driver: the search
\* starts as in GetAiMove and SuggestMove
Searching(op, depth, maximizing_player) ==
    /\ nodes_explored' = 0
    /\ call' = Call(op, depth, maximizing_player, board)
    /\ stack' = <<Frame(depth, NegInf, PosInf, maximizing_player, board)>>
    /\ pc' = "call"
    /\ result' = NoResult
    /\ UNCHANGED <<ROWS, COLUMNS, board, DIFFICULTY, search_depth,
                   valid_cache, n_moves, retval, script, alternating,
                   db_errors, games>>

\* game.drop_piece(col, piece, ...) by the driver, on a column it has found
\* valid
Placing(col, piece) ==
    /\ board' = set_cell(board, drop_row(board, col), col, piece)
    /\ n_moves' = n_moves + 1
    /\ result' = Result(Call("drop_piece", 0, FALSE, board), "ok",
                        drop_row(board, col), col, 0, 0, <<>>)
    /\ UNCHANGED <<ROWS, COLUMNS, nodes_explored, valid_cache, pc, stack,
                   retval, call, script, alternating, db_errors>>

\* the end of a game by a four in a row: game_over = True, then
\* game.adjust_difficulty(...) and only then show_final_stats(winner), whose
\* register_game_stats writes the winner of this game; run_game goes on at
\* place at
Won(winner, at) ==
    LET level == adjusted(DIFFICULTY, human_wins(recent_games(games)))
    IN  /\ DIFFICULTY' = level
        /\ search_depth' = depth_map[level]
        /\ games' = register_game_stats(games, winner)
        /\ gui' = [gui EXCEPT !.at = at, !.game_over = TRUE,
                              !.winner = winner, !.counted = games[1]]

\* run_game before its loop: when the AI begins, the call of get_ai_move
GuiStart ==
    /\ gui.at = "first"
    /\ pc = "idle"
    /\ IF gui.turn = 1
       THEN /\ Searching("get_ai_move", search_depth, TRUE)
            /\ gui' = [gui EXCEPT !.at = "first_ai"]
       ELSE /\ gui' = [gui EXCEPT !.at = "top"]
            /\ GameKept

\* run_game before its loop, after get_ai_move: the piece of the AI when the
\* column is valid; an exception of get_ai_move ends run_game with GameError
GuiFirstMoved ==
    /\ gui.at = "first_ai"
    /\ pc = "idle"
    /\ IF result.status # "ok"
       THEN /\ gui' = [gui EXCEPT !.at = "crashed"]
            /\ GameKept
       ELSE IF is_valid_move(board, result.column)
       THEN /\ Placing(result.column, AI)
            /\ gui' = [gui EXCEPT !.at = "top", !.turn = 0]
            /\ UNCHANGED <<DIFFICULTY, search_depth, games>>
       ELSE /\ gui' = [gui EXCEPT !.at = "top"]
            /\ GameKept

\* the top of the loop when check_move_timeout() is true: the side that is
\* not to move is declared the winner, show_final_stats(winner.upper()),
\* break
GuiTimeout ==
    /\ gui.at = "top"
    /\ pc = "idle"
    /\ ~gui.game_over
    /\ LET winner == IF gui.turn = 0 THEN "IA" ELSE "JUGADOR"
       IN  /\ games' = register_game_stats(games, winner)
           /\ gui' = [gui EXCEPT !.at = "returned", !.game_over = TRUE,
                                 !.winner = winner]
    /\ UNCHANGED <<ROWS, COLUMNS, board, DIFFICULTY, search_depth,
                   nodes_explored, valid_cache, n_moves, pc, stack, retval,
                   call, result, script, alternating, db_errors>>

\* the top of the loop otherwise: on to the events
GuiNoTimeout ==
    /\ gui.at = "top"
    /\ pc = "idle"
    /\ gui' = [gui EXCEPT !.at = "events"]
    /\ GameKept

\* a click handler that does not look at game_over
GuiClick_after_the_end(col) ==
    /\ gui.at = "events"
    /\ pc = "idle"
    /\ db_errors < MaxDbErrors
    /\ IF gui.turn = 0 /\ is_valid_move(board, col)
       THEN /\ Placing(col, PLAYER)
            /\ IF check_winner(board', PLAYER)
               THEN Won("HUMAN", "events")
               ELSE /\ gui' = [gui EXCEPT !.turn = 1]
                    /\ UNCHANGED <<DIFFICULTY, search_depth, games>>
       ELSE UNCHANGED vars

\* a MOUSEBUTTONDOWN over column col (_handle_mouse_click): when the game is
\* on, it is the turn of the human and the column is valid,
\* _handle_player_move(col)
GuiClick(col) ==
    /\ gui.at = "events"
    /\ pc = "idle"
    /\ db_errors < MaxDbErrors
    /\ IF ~gui.game_over /\ gui.turn = 0 /\ is_valid_move(board, col)
       THEN /\ Placing(col, PLAYER)
            /\ IF check_winner(board', PLAYER)
               THEN Won("HUMAN", "events")
               ELSE /\ gui' = [gui EXCEPT !.turn = 1]
                    /\ UNCHANGED <<DIFFICULTY, search_depth, games>>
       ELSE UNCHANGED vars

\* a MOUSEBUTTONDOWN on the suggestion button while the game is on: the call
\* of suggest_move
GuiClickSuggest ==
    /\ gui.at = "events"
    /\ pc = "idle"
    /\ db_errors < MaxDbErrors
    /\ ~gui.game_over
    /\ gui.suggestions < MaxSuggestions
    /\ Searching("suggest_move", SUGGEST_DEPTH, FALSE)
    /\ gui' = [gui EXCEPT !.at = "suggesting",
                          !.suggestions = gui.suggestions + 1]

\* _handle_mouse_click after suggest_move: the suggestion is kept and the
\* next event is handled; an exception of suggest_move ends run_game with
\* GameError
GuiSuggested ==
    /\ gui.at = "suggesting"
    /\ pc = "idle"
    /\ gui' = [gui EXCEPT !.at = IF result.status = "ok" THEN "events"
                                 ELSE "crashed"]
    /\ GameKept

\* a QUIT event, in the loop of the game or while the driver waits for the
\* window to be closed: cleanup() and return
GuiQuit ==
    /\ gui.at \in {"events", "wait"}
    /\ pc = "idle"
    /\ gui' = [gui EXCEPT !.at = "quit"]
    /\ GameKept

\* the events of this pass are handled: on to the turn of the AI
GuiEventsDone ==
    /\ gui.at = "events"
    /\ pc = "idle"
    /\ gui' = [gui EXCEPT !.at = "ai"]
    /\ GameKept

\* the turn of the AI: when the game is on and turn is 1, the call of
\* get_ai_move
GuiAiTurn ==
    /\ gui.at = "ai"
    /\ pc = "idle"
    /\ IF ~gui.game_over /\ gui.turn = 1
       THEN /\ gui.stuck <= MaxStuck
            /\ Searching("get_ai_move", search_depth, TRUE)
            /\ gui' = [gui EXCEPT !.at = "ai_search"]
       ELSE /\ gui' = [gui EXCEPT !.at = "draw"]
            /\ GameKept

\* the turn of the AI after get_ai_move: when the column is valid, the piece
\* of the AI, then the end of the game on a four in a row (continue) or the
\* turn of the human; when it is not, nothing. An exception of get_ai_move
\* is raised again and ends run_game with GameError
GuiAiMoved ==
    /\ gui.at = "ai_search"
    /\ pc = "idle"
    /\ IF result.status # "ok"
       THEN /\ gui' = [gui EXCEPT !.at = "crashed"]
            /\ GameKept
       ELSE IF is_valid_move(board, result.column)
       THEN /\ Placing(result.column, AI)
            /\ IF check_winner(board', AI)
               THEN Won("AI", "top")
               ELSE /\ gui' = [gui EXCEPT !.at = "draw", !.turn = 0]
                    /\ UNCHANGED <<DIFFICULTY, search_depth, games>>
       ELSE /\ gui' = [gui EXCEPT !.at = "draw", !.stuck = gui.stuck + 1]
            /\ GameKept

\* the check for a draw, len(game.get_valid_moves()) == 0 while the game is
\* on, with show_final_stats("EMPATE"); then the wait for the window to be
\* closed when the game is over, the next pass of the loop when it is not
GuiDrawCheck ==
    /\ gui.at = "draw"
    /\ pc = "idle"
    /\ LET draw == ~gui.game_over
                   /\ Len(get_valid_moves(valid_cache, board)) = 0
       IN  /\ valid_cache' = IF gui.game_over THEN valid_cache
                             ELSE cache_after(valid_cache, board)
           /\ games' = IF draw THEN register_game_stats(games, "EMPATE")
                       ELSE games
           /\ gui' = IF draw
                     THEN [gui EXCEPT !.at = "wait", !.game_over = TRUE,
                                      !.winner = "EMPATE"]
                     ELSE [gui EXCEPT !.at = IF gui.game_over THEN "wait"
                                             ELSE "top"]
    /\ UNCHANGED <<ROWS, COLUMNS, board, DIFFICULTY, search_depth,
                   nodes_explored, n_moves, pc, stack, retval, call, result,
                   script, alternating, db_errors>>

----------------------------------------------------------------------------
(* Specification: a game played through the driver on the smallest board   *)
(* at difficulty 1, by a human who clicks on any column at any time and    *)
(* may let the time for a move run out                                     *)

\* the games played before this one, the newest first
Earlier == <<"HUMAN", "HUMAN", "HUMAN">>

InitGame ==
    /\ ConstructedOn(MIN_BOARD_SIZE, MIN_BOARD_SIZE, 1, Earlier)
    /\ script = <<>>

\* ConnectFourGUI(game) and run_game()
RunGame(initial_player) ==
    /\ gui.at = "none"
    /\ pc = "idle"
    /\ Pieces(board) = 0
    /\ gui' = Gui(initial_player)
    /\ GameKept

NextGame ==
    \/ \E initial_player \in {"HUMAN", "AI"} : RunGame(initial_player)
    \/ GuiStart
    \/ GuiFirstMoved
    \/ GuiTimeout
    \/ GuiNoTimeout
    \/ \E col \in Cols : GuiClick(col)
    \/ GuiClickSuggest
    \/ GuiSuggested
    \/ GuiQuit
    \/ GuiEventsDone
    \/ GuiAiTurn
    \/ GuiAiMoved
    \/ GuiDrawCheck
    \/ GetAiMoveDone
    \/ SuggestMoveDone
    \/ MinimaxCall
    \/ MinimaxTry
    \/ MinimaxReturn

SpecGame == InitGame /\ [][NextGame]_vars

\* The same game with a database that may refuse a move it is asked to
\* record during a search
NextGameDb ==
    \/ NextGame
    \/ MinimaxTryDbError

SpecGameDb == InitGame /\ [][NextGameDb]_vars

----------------------------------------------------------------------------
(* Properties *)

IsSearch(op) == op \in {"minimax", "get_ai_move", "suggest_move"}

Min(S) == CHOOSE x \in S : \A y \in S : x <= y

\* the board after a piece has fallen into a column that is not full
Dropped(b, col, piece) == set_cell(b, drop_row(b, col), col, piece)

OpenCols(b) == {c \in Cols : b[0][c] = EMPTY}

BoardFull(b) == OpenCols(b) = {}

\* Depth-limited minimax without pruning and without any cache, by the
\* terminal rules of the specification: AI four, human four, no valid move,
\* depth exhausted, in this order.
RECURSIVE PlainMinimax(_, _, _)
PlainMinimax(b, depth, maximizing_player) ==
    IF check_winner(b, AI) THEN PosInf
    ELSE IF check_winner(b, PLAYER) THEN NegInf
    ELSE IF BoardFull(b) THEN 0
    ELSE IF depth = 0 THEN evaluate_position(b)
    ELSE LET piece == IF maximizing_player THEN AI ELSE PLAYER
             scores == {PlainMinimax(Dropped(b, col, piece), depth - 1,
                                     ~maximizing_player) : col \in OpenCols(b)}
         IN  IF maximizing_player THEN Max(scores) ELSE Min(scores)

\* C1: every call of minimax that returns leaves the board as it was when the
\* call was entered, and so do get_ai_move and suggest_move (the database
\* accepting every move, as it does in this specification).
C1_BoardRestored ==
    /\ pc = "ret" => board = retval.node.entry
    /\ (pc = "idle" /\ IsSearch(result.op)) => board = result.before

\* C1 witness: get_ai_move returned after a search that made trial drops
C1_Witness ==
    /\ pc = "idle"
    /\ result.op = "get_ai_move"
    /\ result.status = "ok"
    /\ result.nodes > 1
    /\ Pieces(result.before) > 0
    /\ board = result.before

\* C2: on every 4x4 board reached by legal alternating play, for every depth
\* up to the number of empty cells, minimax(depth, -inf, +inf, maximizing)
\* returns the score of plain minimax without pruning.
C2_AlphaBetaEquivalence ==
    (/\ pc = "idle"
     /\ result.op = "minimax"
     /\ ROWS = 4 /\ COLUMNS = 4
     /\ alternating.ok
     /\ result.depth <= Empties(result.before))
    => result.score = PlainMinimax(result.before, result.depth, result.maximizing)

\* the score plain minimax gives to the move col of the side to move
ColumnScore(b, col, depth, maximizing_player) ==
    PlainMinimax(Dropped(b, col, IF maximizing_player THEN AI ELSE PLAYER),
                 depth - 1, ~maximizing_player)

\* the lowest valid column whose score is the best one for the side to move
BestColumn(b, depth, maximizing_player) ==
    LET scores == {ColumnScore(b, c, depth, maximizing_player) : c \in OpenCols(b)}
        best == IF maximizing_player THEN Max(scores) ELSE Min(scores)
    IN  Min({c \in OpenCols(b) : ColumnScore(b, c, depth, maximizing_player) = best})

Undecided(b) ==
    /\ ~check_winner(b, AI)
    /\ ~check_winner(b, PLAYER)
    /\ ~BoardFull(b)

\* C3: on a board with no four in a row and a column that is not full,
\* get_ai_move returns the lowest valid column among those whose plain
\* minimax score is the maximum over the valid columns.
C3_LowestBestColumn ==
    (/\ pc = "idle"
     /\ result.op = "get_ai_move"
     /\ Undecided(result.before))
    => /\ result.status = "ok"
       /\ result.column = BestColumn(result.before, result.depth, TRUE)

\* the columns of S in ascending order
Ascending(S) ==
    LET F[c \in 0..COLUMNS] ==
            IF c = COLUMNS THEN <<>>
            ELSE (IF c \in S THEN <<c>> ELSE <<>>) \o F[c + 1]
    IN  F[0]

\* C4: whatever was called before, get_valid_moves() returns the columns
\* whose top cell is empty on the current board, in ascending order.
C4_ValidMovesCurrent ==
    (pc = "idle" /\ result.op = "get_valid_moves")
    => result.list = Ascending(OpenCols(board))

\* C5: when some column is not full, get_ai_move and suggest_move return a
\* column in [0, columns) whose top cell is empty.
C5_ReturnedColumnValid ==
    (/\ pc = "idle"
     /\ result.op \in {"get_ai_move", "suggest_move"}
     /\ ~BoardFull(result.before))
    => /\ result.status = "ok"
       /\ result.column \in Cols
       /\ result.before[0][result.column] = EMPTY

\* C6: when every column is full, get_ai_move and suggest_move raise
\* RuntimeError and return no column.
C6_FullBoardRaises ==
    (/\ pc = "idle"
     /\ result.op \in {"get_ai_move", "suggest_move"}
     /\ BoardFull(result.before))
    => result.status = "RuntimeError"

\* C7: a call of minimax entered on a full board without a four in a row
\* returns (0, None), at every depth and in both roles.
C7_FullBoardIsDraw ==
    (/\ pc = "ret"
     /\ BoardFull(retval.node.entry)
     /\ ~check_winner(retval.node.entry, AI)
     /\ ~check_winner(retval.node.entry, PLAYER))
    => (retval.score = 0 /\ retval.column = None)

\* C8: a call of minimax entered on a board where the AI has four in a row
\* returns (+inf, None), whatever else holds of the board and the depth; one
\* entered where only the human has four in a row returns (-inf, None).
C8_WinPriority ==
    pc = "ret" =>
       LET b == retval.node.entry
       IN  /\ check_winner(b, AI)
              => (retval.score = PosInf /\ retval.column = None)
           /\ (check_winner(b, PLAYER) /\ ~check_winner(b, AI))
              => (retval.score = NegInf /\ retval.column = None)

\* C8 witness: a call returned +inf on a board where both sides have four
C8_Witness ==
    /\ pc = "ret"
    /\ check_winner(retval.node.entry, AI)
    /\ check_winner(retval.node.entry, PLAYER)
    /\ retval.score = PosInf

Gravity(b) ==
    \A col \in Cols, row \in Rows :
        b[row][col] # EMPTY => \A below \in (row + 1)..(ROWS - 1) : b[below][col] # EMPTY

\* C9: in every state, between the public calls and at every node of a
\* search, each occupied cell has only occupied cells below it.
C9_Gravity == Gravity(board)

\* C9 witness: inside a search, two trial drops deep, on a board that had
\* pieces before the search
C9_Witness ==
    /\ pc = "call"
    /\ Len(stack) = 3
    /\ Pieces(call.before) > 0
    /\ Pieces(board) = Pieces(call.before) + 2

\* C10: on a board of any size, a trial drop followed by the reset of the
\* cell it returned gives back the board as it was before the drop.
C10_DropUndoRoundTrip ==
    /\ (pc = "loop" /\ Top.row # None) => board = Top.pre
    /\ (pc = "ret" /\ retval.node.row # None) => board = retval.node.pre

\* C10 witness: a drop undone on the largest board, in a column that held
\* pieces
C10_Witness ==
    /\ pc = "loop"
    /\ Top.row # None
    /\ Top.row < ROWS - 1
    /\ ROWS = MAX_BOARD_SIZE
    /\ COLUMNS = MAX_BOARD_SIZE
    /\ board = Top.pre

\* the lowest empty cell of a column that is not full: empty, with no empty
\* cell below it
LowestEmpty(b, col) ==
    CHOOSE r \in Rows :
        b[r][col] = EMPTY /\ \A q \in (r + 1)..(ROWS - 1) : b[q][col] # EMPTY

\* a step that is a call drop_piece(col, _) on a column in range whose top
\* cell is empty
DropOnValid(col) ==
    /\ pc = "idle"
    /\ result'.op = "drop_piece"
    /\ result'.before = board
    /\ result'.column = col
    /\ board[0][col] = EMPTY

\* C11: drop_piece on a valid column writes the given side into the lowest
\* empty cell of the column, returns the (row, column) of that cell, and
\* leaves every other cell, the dimensions and the search depth unchanged.
C11_DropPieceFrame ==
    [][\A col \in Cols :
          DropOnValid(col) =>
             LET row == LowestEmpty(board, col)
             IN  /\ result'.status = "ok"
                 /\ result'.row = row
                 /\ alternating'.last \in {PLAYER, AI}
                 /\ board' = [board EXCEPT ![row][col] = alternating'.last]
                 /\ ROWS' = ROWS
                 /\ COLUMNS' = COLUMNS
                 /\ search_depth' = search_depth]_vars

\* a step that is a call drop_piece(col, _) on a column out of range or full
DropOnInvalid(col) ==
    /\ pc = "idle"
    /\ result'.op = "drop_piece"
    /\ result'.before = board
    /\ result'.column = col
    /\ (col < 0 \/ col >= COLUMNS \/ board[0][col] # EMPTY)

\* C12: drop_piece on a column that is negative, >= columns or full fails
\* with ValueError and leaves the board and the recorded move history as they
\* were.
C12_InvalidDropRejected ==
    [][\A col \in -1..COLUMNS :
          DropOnInvalid(col) =>
             /\ result'.status = "ValueError"
             /\ board' = board
             /\ n_moves' = n_moves]_vars

\* C12 witness: ValueError for a full column, between two columns that are
\* not full
C12_Witness ==
    /\ pc = "idle"
    /\ result.op = "drop_piece"
    /\ result.status = "ValueError"
    /\ result.column \in Cols
    /\ board[0][result.column] # EMPTY
    /\ board = result.before
    /\ n_moves = Pieces(board)
    /\ \E lower, higher \in Cols :
          /\ lower < result.column /\ result.column < higher
          /\ board[0][lower] = EMPTY /\ board[0][higher] = EMPTY

\* every run of four cells in a line on the current board
Runs == RunsOf(ROWS, COLUMNS)

\* the contents of the four cells of w, in order
Cells(b, w) == [i \in 1..4 |-> b[w[i][1]][w[i][2]]]

HasFour(b, piece) == \E w \in Runs : \A i \in 1..4 : Cells(b, w)[i] = piece

\* PlayerA in row 5, columns 0-3 of a 6x7 board and nothing else
RowFive(piece) ==
    [r \in 0..5 |-> [c \in 0..6 |-> IF r = 5 /\ c <= 3 THEN piece ELSE EMPTY]]

\* C13: on every board of a size in [4,8]x[4,8] and for each side,
\* check_winner(side) is true iff some run of 4 consecutive cells along a
\* row, a column or a diagonal holds that side only; a side in row 5,
\* columns 0-3 of a 6x7 board has four and the other side has not.
C13_CheckWinner ==
    (pc = "idle" /\ result.op = "check_winner")
    => /\ result.value = HasFour(result.before, result.args[1])
       /\ \A side \in {PLAYER, AI} :
             result.before = RowFive(side)
             => result.value = (result.args[1] = side)

\* C13 witness: check_winner of the other side returned False on the 6x7
\* board with a side in row 5, columns 0-3
C13_Witness ==
    /\ pc = "idle"
    /\ result.op = "check_winner"
    /\ ROWS = 6 /\ COLUMNS = 7
    /\ result.before = RowFive(PLAYER)
    /\ result.args = <<AI>>
    /\ result.value = FALSE
    /\ check_winner(board, PLAYER)

\* w lies on the current board
OnBoard(w) == \A i \in 1..4 : w[i][1] \in Rows /\ w[i][2] \in Cols

\* the sum of evaluate_window(w, AI) over every run w of four cells in a
\* line, whatever its place on the board: from each cell, the runs in the
\* four directions that stay on the board
RunScore(b) ==
    SumRange(0, ROWS, LAMBDA r :
      SumRange(0, COLUMNS, LAMBDA c :
        SumRange(1, 5, LAMBDA k :
          LET w == Run(r, c, <<<<0, 1>>, <<1, 0>>, <<1, 1>>, <<-1, 1>>>>[k])
          IN  IF OnBoard(w) THEN evaluate_window(Cells(b, w), AI) ELSE 0)))

\* C14: evaluate_position() is the sum of evaluate_window(w, AI) over every
\* length-4 window w, horizontal, vertical and of both diagonal directions,
\* plus 3 for each AI piece in column columns // 2; on the empty board it
\* is 0.
C14_EvaluatePosition ==
    (pc = "idle" /\ result.op = "evaluate_position")
    => LET b == result.before
           centre == Cardinality({r \in Rows : b[r][COLUMNS \div 2] = AI})
       IN  /\ result.value = RunScore(b) + 3 * centre
           /\ Pieces(b) = 0 => result.value = 0

\* C14 witness: a position on the largest board scored with a centre bonus
\* and a window that counts for the AI
C14_Witness ==
    /\ pc = "idle"
    /\ result.op = "evaluate_position"
    /\ ROWS = MAX_BOARD_SIZE /\ COLUMNS = MAX_BOARD_SIZE
    /\ \E r \in Rows : board[r][COLUMNS \div 2] = AI
    /\ \E w \in Runs : evaluate_window(Cells(board, w), AI) = 5
    /\ \E w \in Runs : evaluate_window(Cells(board, w), AI) = -4
    /\ result.value # 0

\* how many of the four cells of window hold x
Holds(window, x) ==
    LET F[i \in 0..4] == IF i = 0 THEN 0
                         ELSE F[i - 1] + (IF window[i] = x THEN 1 ELSE 0)
    IN  F[4]

\* the scoring table: one case applies to a window, or none
WindowTable(window, side) ==
    LET mine == Holds(window, side)
        empty == Holds(window, EMPTY)
        theirs == 4 - mine - empty
    IN  CASE mine = 4 -> 100
          [] mine = 3 /\ empty = 1 -> 5
          [] mine = 2 /\ empty = 2 -> 2
          [] theirs = 3 /\ empty = 1 -> -4
          [] OTHER -> 0

\* C15: for every window of 4 cells over {Empty, PlayerA, PlayerB} and either
\* side, evaluate_window returns +100 for 4 of the side, +5 for 3 of it and 1
\* Empty, +2 for 2 of it and 2 Empty, -4 for 3 of the other side and 1 Empty,
\* and 0 otherwise, whatever the board and the calls made before.
C15_EvaluateWindow ==
    (pc = "idle" /\ result.op = "evaluate_window")
    => result.value = WindowTable(result.args[1], result.args[2])

\* C15 witness: the penalty returned for a window seen from the human's
\* side, on a board that holds a piece
C15_Witness ==
    /\ pc = "idle"
    /\ result.op = "evaluate_window"
    /\ result.args = <<<<AI, EMPTY, AI, AI>>, PLAYER>>
    /\ result.value = -4
    /\ Pieces(board) > 0

\* the windows of a scan, as a set
Scanned(windows) == {windows[i] : i \in 1..Len(windows)}

\* the closed form of the number of windows of a rows x columns board
WindowCount(rows, columns) ==
    rows * (columns - 3) + columns * (rows - 3)
    + 2 * (rows - 3) * (columns - 3)

\* C16: on every size in [4,8]x[4,8] the windows scanned by check_winner
\* are the windows scored by evaluate_position, no window occurs twice (as
\* a tuple of cells or as a set of cells), and there are
\* R*(C-3) + C*(R-3) + 2*(R-3)*(C-3) of them; the two scans are the ones the
\* two methods use: check_winner answers whether a scanned window holds the
\* side only, and evaluate_position adds the scores of its windows to the
\* centre bonus.
C16_SameWindows ==
    (pc = "idle" /\ result.op \in {"check_winner", "evaluate_position"})
    => LET cw == check_winner_windows
           ew == evaluate_position_windows
           b == result.before
       IN  /\ Scanned(cw) = Scanned(ew)
           /\ Cardinality(Scanned(cw)) = Len(cw)
           /\ Cardinality(Scanned(ew)) = Len(ew)
           /\ Cardinality({{w[i] : i \in 1..4} : w \in Scanned(cw)}) = Len(cw)
           /\ Len(cw) = WindowCount(ROWS, COLUMNS)
           /\ Len(ew) = WindowCount(ROWS, COLUMNS)
           /\ result.op = "check_winner"
              => result.value
                 = (\E w \in Scanned(cw) :
                       \A i \in 1..4 : Cells(b, w)[i] = result.args[1])
           /\ result.op = "evaluate_position"
              => result.value
                 = SumRange(1, Len(ew) + 1, LAMBDA k :
                       evaluate_window(Cells(b, ew[k]), AI))
                   + 3 * Cardinality({r \in Rows : b[r][COLUMNS \div 2] = AI})

\* C16 witness: both scans have run on a 6x7 board holding pieces, which
\* has 69 windows
C16_Witness ==
    /\ pc = "idle"
    /\ result.op = "evaluate_position"
    /\ ROWS = 6 /\ COLUMNS = 7
    /\ Len(check_winner_windows) = 69
    /\ Len(evaluate_position_windows) = 69
    /\ Pieces(board) >= 4
    /\ check_winner(board, AI)

\* C17: a search records nothing: no step of a get_ai_move or suggest_move
\* call adds a move to the persisted history (the history only grows, so it
\* is the same after the call as before), and whenever no call is in
\* progress the number of recorded moves is the number of pieces on the
\* board.
C17_SearchRecordsNothing ==
    /\ [][call.op \in {"get_ai_move", "suggest_move"} => n_moves' = n_moves]_vars
    /\ [](pc = "idle" => n_moves = Pieces(board))

\* C18: on a board with no four in a row and a column that is not full,
\* suggest_move returns, whatever the difficulty, the column a depth-2
\* search chooses for the minimizing side: the lowest valid column among
\* those whose position after the human's drop has the minimum score.
C18_SuggestMove ==
    (/\ pc = "idle"
     /\ result.op = "suggest_move"
     /\ Undecided(result.before))
    => /\ result.status = "ok"
       /\ result.depth = 2
       /\ ~result.maximizing
       /\ result.column = BestColumn(result.before, 2, FALSE)

\* C19: the database accepting every move, no exception leaves a search
\* (the ValueError of a drop in a full column is caught inside the loop),
\* minimax ends with a (score, column) pair, and every call that has begun
\* (minimax at any depth from 0, directly or under get_ai_move or
\* suggest_move) comes back to its caller after finitely many steps.
C19_MinimaxTerminates ==
    /\ [](pc # "raise")
    /\ []((pc = "idle" /\ result.op = "minimax") => result.status = "ok")
    /\ (pc # "idle") ~> (pc = "idle")

\* C19 witness: minimax has returned from a search of depth 2 or more begun
\* on an undecided board where a column listed as valid was full, so that
\* drop_piece raised ValueError inside the loop
C19_Witness ==
    /\ pc = "idle"
    /\ result.op = "minimax"
    /\ result.status = "ok"
    /\ result.depth >= 2
    /\ result.invocations >= 3
    /\ Undecided(result.before)
    /\ \E c \in Cols :
          /\ result.before[0][c] # EMPTY
          /\ Len(valid_cache) > 0
          /\ \E k \in 1..Len(valid_cache[1]) : valid_cache[1][k] = c

\* some side has four in a row on b
GameOver(b) == check_winner(b, AI) \/ check_winner(b, PLAYER)

\* a search at depth 1 as the maximizer on the empty 6x7 board makes 8 calls
\* of minimax: the root and one leaf per column
DepthOneExample ==
    (/\ pc = "idle"
     /\ IsSearch(result.op)
     /\ result.depth = 1
     /\ result.maximizing
     /\ result.before = EmptyBoard(6, 7))
    => result.invocations = 8

C21_DifficultyInRange ==
    /\ [](/\ DIFFICULTY \in {1, 2, 3}
          /\ search_depth = (1 :> 2 @@ 2 :> 4 @@ 3 :> 6)[DIFFICULTY])
    /\ [][DIFFICULTY' - DIFFICULTY \in {-1, 0, 1}]_vars

\* C21 witness: adjust_difficulty has counted at most one human win and
\* left level 2 with depth 4, on a database that failed to answer an earlier
\* call and holds AI as the winner of this game
C21_Witness ==
    /\ pc = "idle"
    /\ result.op = "adjust_difficulty"
    /\ result.value <= 1
    /\ DIFFICULTY = 2 /\ search_depth = 4
    /\ db_errors > 0
    /\ games[1] = "AI"

\* C22: a constructor call whose rows or columns lie outside [4,8] fails
\* with ValueError, and then there is no board and no row of the game in the
\* games table; a constructor call that succeeds leaves a board of exactly
\* rows x columns cells, all empty.
C22_Construction ==
    [][pc = "new" =>
         LET rows == result'.args[1]
             columns == result'.args[2]
         IN  /\ result'.op = "__init__"
             /\ (rows \notin 4..8 \/ columns \notin 4..8)
                => /\ result'.status = "ValueError"
                   /\ pc' = "new"
                   /\ board' = <<>>
                   /\ games' = games
             /\ result'.status = "ok"
                => /\ pc' = "idle"
                   /\ DOMAIN board' = 0..(rows - 1)
                   /\ \A r \in DOMAIN board' :
                         /\ DOMAIN board'[r] = 0..(columns - 1)
                         /\ \A c \in DOMAIN board'[r] : board'[r][c] = EMPTY
                   /\ ROWS' = rows /\ COLUMNS' = columns
                   /\ Len(games') = Len(games) + 1]_vars

\* C22 witness: after a call refused for its 9 columns and one refused by
\* the database, an 8x4 game has been constructed
C22_Witness ==
    /\ pc = "idle"
    /\ result.op = "__init__"
    /\ result.status = "ok"
    /\ ROWS = 8 /\ COLUMNS = 4
    /\ board = EmptyBoard(8, 4)
    /\ db_errors > 0
    /\ Len(games) = 2

\* C23: for every integer column, negative ones and those from columns on
\* included, and every board, is_valid_move(column) returns true iff
\* 0 <= column < columns and the top cell of the column is empty; it raises
\* nothing and leaves the board as it was.
C23_IsValidMove ==
    (pc = "idle" /\ result.op = "is_valid_move")
    => LET column == result.args[1]
       IN  /\ result.status = "ok"
           /\ result.value \in BOOLEAN
           /\ result.value = (/\ 0 <= column
                              /\ column < COLUMNS
                              /\ result.before[0][column] = EMPTY)
           /\ board = result.before

\* C23 witness: column -1 was refused on a board whose last column is open
\* and which has a full column
C23_Witness ==
    /\ pc = "idle"
    /\ result.op = "is_valid_move"
    /\ result.args = <<-1>>
    /\ result.value = FALSE
    /\ board[0][COLUMNS - 1] = EMPTY
    /\ \E c \in Cols : board[0][c] # EMPTY

\* window with the pieces of the two sides exchanged
Swapped(window) ==
    [i \in 1..4 |-> IF window[i] = EMPTY THEN EMPTY ELSE Other(window[i])]

\* the rule that rewards side applies to window
Rewarded(window, side) ==
    \/ Holds(window, side) = 4
    \/ Holds(window, side) = 3 /\ Holds(window, EMPTY) = 1
    \/ Holds(window, side) = 2 /\ Holds(window, EMPTY) = 2

\* the rule that penalises the three of the other side applies to window
Penalised(window, side) ==
    Holds(window, Other(side)) = 3 /\ Holds(window, EMPTY) = 1

\* C24: for every window w of 4 cells and either side, evaluate_window(w,
\* side) is the value of evaluate_window for the other side on w with the
\* pieces of the two sides exchanged; the rewarding rule and the penalising
\* rule never both apply to one window: the value is positive exactly when
\* the first applies, negative exactly when the second does, and never a
\* sum of the two.
C24_EvaluatorSymmetry ==
    (pc = "idle" /\ result.op = "evaluate_window")
    => LET w == result.args[1]
           side == result.args[2]
       IN  /\ result.value = evaluate_window(Swapped(w), Other(side))
           /\ ~(Rewarded(w, side) /\ Penalised(w, side))
           /\ (result.value > 0) = Rewarded(w, side)
           /\ (result.value < 0) = Penalised(w, side)
           /\ result.value \in {100, 5, 2, 0, -4}

\* C24 witness: three human pieces and an empty cell scored for the human:
\* +5, where the same window scored for the AI gives -4
C24_Witness ==
    /\ pc = "idle"
    /\ result.op = "evaluate_window"
    /\ result.args = <<<<PLAYER, PLAYER, EMPTY, PLAYER>>, PLAYER>>
    /\ result.value = 5
    /\ evaluate_window(result.args[1], AI) = -4
    /\ evaluate_window(Swapped(result.args[1]), AI) = 5

\* C27: when get_ai_move or suggest_move has returned, its fallback column
\* after a DatabaseError in a trial drop included, the board is the board
\* before the call: no trial piece is left on it.
C27_NoTrialPieceLeft ==
    (/\ pc = "idle"
     /\ result.op \in {"get_ai_move", "suggest_move"}
     /\ result.status = "ok")
    => board = result.before

\* C25: in a game played through the driver, once every cell is filled and
\* neither side has four in a row, the pass of the loop that saw the last
\* piece ends the game as a draw: at the next pass, in the wait for the
\* window to be closed and after run_game has returned, game_over is true
\* and the result shown and recorded is EMPATE, no side being declared the
\* winner and no timeout being waited for
C25_DrawDeclared ==
    (/\ gui.at \in {"top", "wait", "returned"}
     /\ BoardFull(board)
     /\ ~GameOver(board))
    => (gui.game_over /\ gui.winner = "EMPATE")

\* C26: in the driver, a turn of the AI taken while the game is on and some
\* column is not full ends with exactly one more AI piece, in a column that
\* was valid, and then either the game is over, the AI having four in a
\* row, or the turn is the human's: the AI never keeps the turn without
\* having moved
C26_AiTurnPlacesOnePiece ==
    [][(/\ gui.at \in {"first_ai", "ai_search"}
        /\ pc = "idle"
        /\ gui'.at # gui.at
        /\ ~BoardFull(board))
       => /\ \E col \in OpenCols(board) : board' = Dropped(board, col, AI)
          /\ IF check_winner(board', AI)
             THEN gui'.game_over
             ELSE ~gui'.game_over /\ gui'.turn = 0]_vars

\* C28: whatever way a game played through the driver ends (a win of the
\* human, a win of the AI, a draw, the time for a move running out), the
\* winner the driver passes to register_game_stats is HUMAN, AI or EMPATE,
\* the values the games table accepts
C28_WinnerAccepted ==
    gui.winner # "" => gui.winner \in WINNERS

\* C29: when a game played through the driver is won, the winner of that
\* game is already in the games table at the moment adjust_difficulty
\* counts the wins of the human among the five most recent games, so the
\* game just finished is part of the count
C29_WinnerCounted ==
    (gui.game_over /\ gui.winner \in {"HUMAN", "AI"})
    => gui.counted = gui.winner

\* the number of cells of b that hold piece
Held(b, piece) == Cardinality({rc \in Rows \X Cols : b[rc[1]][rc[2]] = piece})

\* C30: in a game played through the driver, seen between the actions of the
\* driver and not inside a search, the human places a piece only when turn
\* is 0 and the AI only when turn is 1, also when several clicks arrive in
\* one batch of events; so the numbers of human and AI pieces on the board
\* differ by at most one and the side that moved first never has fewer
\* pieces than the other
C30_TurnAlternation ==
    /\ [][(pc = "idle" /\ pc' = "idle" /\ board' # board)
          => \/ /\ gui.turn = 0
                /\ \E col \in OpenCols(board) :
                      board' = Dropped(board, col, PLAYER)
             \/ /\ gui.turn = 1
                /\ \E col \in OpenCols(board) :
                      board' = Dropped(board, col, AI)]_vars
    /\ []((gui.at # "none" /\ pc = "idle")
          => LET human == Held(board, PLAYER)
                 ai == Held(board, AI)
             IN  /\ human - ai \in {-1, 0, 1}
                 /\ gui.first = "HUMAN" => human >= ai
                 /\ gui.first = "AI" => ai >= human)

\* C31: in every state of a game played through the driver, seen between
\* the actions of the driver, at most one side has four in a row; a side is
\* declared the winner through play only when it has four in a row; and the
\* game is over as soon as a side has four in a row, so that the other side
\* does not move after the winning move
C31_OneWinner ==
    (gui.at # "none" /\ pc = "idle")
    => /\ ~(check_winner(board, PLAYER) /\ check_winner(board, AI))
       /\ gui.winner = "HUMAN" => check_winner(board, PLAYER)
       /\ gui.winner = "AI" => check_winner(board, AI)
       /\ GameOver(board) => gui.game_over

\* C32: game_over is absorbing. Once the driver has set it, it stays true,
\* and whatever events arrive no piece is placed, no search and no
\* suggestion is started, and the board and the record of the moves stay as
\* they are
C32_GameOverAbsorbing ==
    [][gui.game_over
       => /\ gui'.game_over
          /\ board' = board
          /\ n_moves' = n_moves
          /\ pc' = "idle"
          /\ gui'.at \notin {"suggesting", "ai_search", "first_ai"}
          /\ gui'.suggestions = gui.suggestions]_vars

\* a game has ended, by a four in a row of the human, and the driver has
\* gone through a further pass of its loop and taken further events
C32_Witness ==
    /\ gui.game_over
    /\ gui.winner = "HUMAN"
    /\ gui.at = "wait"
    /\ gui.turn = 0
    /\ OpenCols(board) # {}

====
